---- MODULE Spec2Model ----
(***************************************************************************)
(* Model of scripts/sync-images-to-r2.js: the image synchronisation run.   *)
(*                                                                         *)
(* Strings are modelled by naturals whose numeric order stands for the     *)
(* string order (0 is the empty / undefined value):                        *)
(*   source URLs   1, 2, 3; 0 is a blank URL, 11 is URL 1 with padding     *)
(*   offer ids     1, 2, 3; 0 is a missing id                              *)
(*   etag / last-modified values 1.., 0 when the header is absent          *)
(*   object keys   sha * 10 + rank of the extension                        *)
(* Node runs the script on one thread: the code between two awaits is one  *)
(* atomic step.  The awaits that touch nothing shared (response body,      *)
(* sharp, the back-off sleep) are folded into the step that precedes them. *)
(***************************************************************************)
EXTENDS Integers, Sequences, FiniteSets, TLC

\* ------------------------------------------------------------------ bounds
MaxAttempts == 2      \* MAX_FETCH_ATTEMPTS ranges over 1..MaxAttempts
MaxConcurrency == 2   \* CONCURRENCY ranges over 1..MaxConcurrency
MaxFaults == 2        \* failures injected into one run
LiveFaults == 1       \* failures injected into one run under fairness or any setting
MaxEntries == 3       \* longest input list

\* R2_PUBLIC_BASE, the prefix of every public URL
PublicBase == 1000

URLS == {1, 2, 3}
MIMES == {"image/jpeg", "image/jpg", "image/png", "image/webp", "image/gif"}

\* ------------------------------------------------------- pure functions
MIME_TO_EXT(mime) ==
  CASE mime = "image/jpeg" -> "jpg"
    [] mime = "image/jpg"  -> "jpg"
    [] mime = "image/png"  -> "png"
    [] mime = "image/webp" -> "webp"
    [] mime = "image/gif"  -> "gif"
    [] OTHER -> ""

SUPPORTED_MIME == MIMES

\* normaliseMime over the Content-Type headers the modelled server sends
normaliseMime(header) ==
  CASE header = "" -> "image/jpeg"
    [] header = "image/jpeg" -> "image/jpeg"
    [] header = "image/jpg" -> "image/jpg"
    [] header = "IMAGE/PNG; q=1" -> "image/png"
    [] header = "image/bmp" -> "image/bmp"
    [] OTHER -> "image/jpeg"

\* sharp's resize and re-encode: a deterministic lossy map of the bytes
Resize(buffer) == buffer \div 2

resizeBuffer(inputBuffer, mime) ==
  LET targetMime == IF mime \in SUPPORTED_MIME THEN mime ELSE "image/jpeg"
      ext == IF MIME_TO_EXT(targetMime) = "" THEN "jpg" ELSE MIME_TO_EXT(targetMime)
  IN CASE ext = "png"  -> [buffer |-> Resize(inputBuffer), mime |-> "image/png", ext |-> "png"]
       [] ext = "webp" -> [buffer |-> Resize(inputBuffer), mime |-> "image/webp", ext |-> "webp"]
       [] ext = "gif"  -> [buffer |-> Resize(inputBuffer), mime |-> "image/gif", ext |-> "gif"]
       [] OTHER        -> [buffer |-> Resize(inputBuffer), mime |-> "image/jpeg", ext |-> "jpg"]

\* sha1 digest of a buffer: injective on the modelled buffers
Sha1(buffer) == (7 * buffer + 3) % 11

ExtRank(ext) ==
  CASE ext = "gif" -> 0 [] ext = "jpg" -> 1 [] ext = "png" -> 2 [] OTHER -> 3

\* `img/${sha1}.${processed.ext}`
KeyOf(sha1, ext) == sha1 * 10 + ExtRank(ext)

\* `${publicBase}/${key}`
PublicUrl(key) == PublicBase + key

\* String(u).trim()
Trim(u) == IF u > 10 THEN u - 10 ELSE u

\* ----------------------------------------------------- sequence helpers
RECURSIVE Dedup(_)
\* Array.from(new Set(xs)): first occurrences, in order
Dedup(xs) ==
  IF xs = <<>> THEN <<>>
  ELSE LET init == Dedup(SubSeq(xs, 1, Len(xs) - 1))
           last == xs[Len(xs)]
       IN IF \E i \in 1..Len(init) : init[i] = last THEN init ELSE Append(init, last)

RECURSIVE InsertSorted(_, _)
InsertSorted(sorted, x) ==
  IF sorted = <<>> THEN <<x>>
  ELSE IF x < sorted[1] THEN <<x>> \o sorted
       ELSE <<sorted[1]>> \o InsertSorted(Tail(sorted), x)

RECURSIVE SortNums(_)
\* Array.prototype.sort() on strings
SortNums(xs) ==
  IF xs = <<>> THEN <<>>
  ELSE InsertSorted(SortNums(SubSeq(xs, 1, Len(xs) - 1)), xs[Len(xs)])

RECURSIVE InsertOffer(_, _)
\* stable: an offer goes after the offers with an equal id
InsertOffer(sorted, o) ==
  IF sorted = <<>> THEN <<o>>
  ELSE IF o.offerId < sorted[1].offerId THEN <<o>> \o sorted
       ELSE <<sorted[1]>> \o InsertOffer(Tail(sorted), o)

RECURSIVE SortOffers(_)
\* .sort((a, b) => a.offerId.localeCompare(b.offerId)), a stable sort
SortOffers(os) ==
  IF os = <<>> THEN <<>>
  ELSE InsertOffer(SortOffers(SubSeq(os, 1, Len(os) - 1)), os[Len(os)])

\* urls.map(u => String(u).trim())
TrimAll(urls) == [i \in 1..Len(urls) |-> Trim(urls[i])]

\* .filter(Boolean)
NonBlank(urls) == SelectSeq(urls, LAMBDA u : u # 0)

SeqToSet(xs) == {xs[i] : i \in 1..Len(xs)}

\* ---------------------------------------------------------- manifests
\* A manifest: its keys in insertion order and a record per key.  A field
\* that is undefined is 0 (or "" for mime).
EmptyRec == [etag |-> 0, lastModified |-> 0, r2Key |-> 0, mime |-> ""]
EmptyManifest == [keys |-> <<>>, rec |-> [u \in URLS |-> EmptyRec]]

\* A manifest file that holds the JSON text null parses to null, which is no
\* object: it has no record for any URL, and reading a property of it throws.
NullKey == 0 - 1
NullText == << <<NullKey, <<>>>> >>
NullManifest == [keys |-> <<NullKey>>, rec |-> [u \in URLS |-> EmptyRec]]
IsNull(m) == m.keys = <<NullKey>>

Has(m, u) == u \in SeqToSet(m.keys)

\* nextManifest[srcUrl] = record: an existing key keeps its place
Put(m, u, r) ==
  [keys |-> IF Has(m, u) THEN m.keys ELSE Append(m.keys, u),
   rec |-> [m.rec EXCEPT ![u] = r]]

\* JSON text of one record with its keys sorted; undefined fields are left out
RecordJson(r) ==
  (IF r.etag # 0 THEN <<<<"etag", r.etag>>>> ELSE <<>>)
  \o (IF r.lastModified # 0 THEN <<<<"lastModified", r.lastModified>>>> ELSE <<>>)
  \o (IF r.mime # "" THEN <<<<"mime", r.mime>>>> ELSE <<>>)
  \o (IF r.r2Key # 0 THEN <<<<"r2Key", r.r2Key>>>> ELSE <<>>)

\* the order in which sortObjectDeep emits the keys of a manifest
SortedKeys(m) == SortNums(m.keys)

\* JSON.stringify(sortObjectDeep(manifest), null, 2)
ManifestString(m) ==
  LET ks == SortedKeys(m)
  IN IF IsNull(m) THEN NullText
     ELSE [i \in 1..Len(ks) |-> <<ks[i], RecordJson(m.rec[ks[i]])>>]

FieldOf(json, name, default) ==
  IF \E i \in 1..Len(json) : json[i][1] = name
  THEN LET i == CHOOSE j \in 1..Len(json) : json[j][1] = name IN json[i][2]
  ELSE default

\* JSON.parse of a manifest file
ParseManifest(text) ==
  [keys |-> [i \in 1..Len(text) |-> text[i][1]],
   rec |-> [u \in URLS |->
     IF \E i \in 1..Len(text) : text[i][1] = u
     THEN LET json == text[CHOOSE i \in 1..Len(text) : text[i][1] = u][2]
          IN [etag |-> FieldOf(json, "etag", 0),
              lastModified |-> FieldOf(json, "lastModified", 0),
              r2Key |-> FieldOf(json, "r2Key", 0),
              mime |-> FieldOf(json, "mime", "")]
     ELSE EmptyRec]]

\* ------------------------------------------------------------- server
\* What the origin serves for each URL: body, Content-Type and validators.
\* URLs 1 and 2 differ in bytes and validators and transcode to the same
\* bytes and extension; URL 3 transcodes to the same bytes as a png.
Server(u) ==
  CASE u = 1 -> [bytes |-> 10, ctype |-> "image/jpeg", etag |-> 1, lastModified |-> 0]
    [] u = 2 -> [bytes |-> 11, ctype |-> "image/jpg", etag |-> 0, lastModified |-> 2]
    [] OTHER -> [bytes |-> 10, ctype |-> "IMAGE/PNG; q=1", etag |-> 0, lastModified |-> 0]

NoHeaders == [inm |-> 0, ims |-> 0]

\* the origin answers 304 when the request's validator matches the resource
NotModified(u, headers) ==
  IF headers.inm # 0 THEN headers.inm = Server(u).etag
  ELSE headers.ims # 0 /\ headers.ims = Server(u).lastModified

\* the key under which the code stores the current content of a URL
FreshKey(u) ==
  LET processed == resizeBuffer(Server(u).bytes, normaliseMime(Server(u).ctype))
  IN KeyOf(Sha1(processed.buffer), processed.ext)

\* ------------------------------------------------------ the two settings
\* Number(process.env.X): not a number (unset or unparsable), or a number
NaN == [nan |-> TRUE, n |-> 0]
Num(n) == [nan |-> FALSE, n |-> n]

Max(a, b) == IF a > b THEN a ELSE b

\* x || d on a number: NaN and 0 are falsy
OrDefault(x, d) == IF x.nan \/ x.n = 0 THEN d ELSE x.n

DefaultConcurrency == 4
DefaultFetchAttempts == 3

\* line 18
CONCURRENCY(env) == Max(1, OrDefault(env, DefaultConcurrency))

\* MAX_FETCH_ATTEMPTS without Math.max
MAX_FETCH_ATTEMPTS_Unclamped(env) == OrDefault(env, DefaultFetchAttempts)

\* line 19
MAX_FETCH_ATTEMPTS(env) == Max(1, OrDefault(env, DefaultFetchAttempts))

\* ------------------------------------------------------------- inputs
Entry(id, us) == [offerId |-> id, isArray |-> TRUE, urls |-> us]

\* images.json: the input lists of the model
AllInputLists ==
  { <<>>,
    << Entry(1, <<1, 11>>) >>,
    << Entry(2, <<3, 1>>), Entry(1, <<2, 1, 11>>) >>,
    << Entry(1, <<1>>), Entry(1, <<3>>) >>,
    << Entry(3, <<2>>), Entry(1, <<1>>), Entry(2, <<1>>) >>,
    << Entry(0, <<1>>), Entry(3, <<0>>), Entry(2, <<2>>) >>,
    << [offerId |-> 1, isArray |-> FALSE, urls |-> <<>>], Entry(2, <<>>), Entry(3, <<3, 0, 3>>) >> }

InputLists == {l \in AllInputLists : Len(l) <= MaxEntries}

Rec(e, l, k, m) == [etag |-> e, lastModified |-> l, r2Key |-> k, mime |-> m]

ManifestOf(r1, r2, r3) ==
  LET rs == <<r1, r2, r3>>
  IN [keys |-> SelectSeq(<<1, 2, 3>>, LAMBDA u : rs[u] # EmptyRec),
      rec |-> [u \in URLS |-> rs[u]]]

\* public/images-manifest.json as earlier runs (or a person) left it
PrevManifests ==
  { EmptyManifest,
    \* the file holds null
    NullManifest,
    \* what a run over URLs 1 and 2 writes
    ManifestOf(Rec(1, 0, 51, "image/jpeg"), Rec(0, 2, 51, "image/jpeg"), EmptyRec),
    \* validators without a stored key, and a record of a URL with a stale etag
    ManifestOf(Rec(1, 0, 0, ""), Rec(0, 0, 40, "image/png"), Rec(9, 0, 40, "image/png")),
    \* a matching validator with a key of an older encoding
    ManifestOf(Rec(1, 0, 40, "image/png"), EmptyRec, Rec(0, 0, 52, "image/png")) }

KeysOf(m) == {m.rec[u].r2Key : u \in SeqToSet(m.keys) \cap URLS} \ {0}

\* ---------------------------------------------------------------- state
VARIABLES
  imagesList,        \* images.json
  envFetchAttempts,  \* Number(process.env.R2_FETCH_ATTEMPTS)
  envConcurrency,    \* Number(process.env.R2_CONCURRENCY)
  maxFetchAttempts,  \* MAX_FETCH_ATTEMPTS
  concurrency,       \* CONCURRENCY
  diskManifest,      \* public/images-manifest.json (its text)
  diskOffers,        \* public/manifest-r2.json (its text)
  store,             \* keys of the objects in the bucket
  r2ManifestPuts,    \* putManifestToR2 calls of this run
  mainPc,            \* "start", "pool", "done"
  previousManifest, nextManifest, stats, offerResults, index, workerCount,
  workers,           \* the async workers and their processOffer frames
  faultsLeft,        \* failures the environment may still inject
  hist,              \* per (entry, URL): what the processor did
  claims,            \* per entry: how often the cursor handed it out
  putCount,          \* per key: successful PUTs of this run
  startManifest,     \* the text of images-manifest.json when the run began
  r2Manifest,        \* the manifest object in the bucket
  run, first         \* the run number and what run 1 wrote

vars == <<imagesList, envFetchAttempts, envConcurrency, maxFetchAttempts,
          concurrency, diskManifest, diskOffers, store, r2ManifestPuts, mainPc,
          previousManifest, nextManifest, stats, offerResults, index, workerCount,
          workers, faultsLeft, hist, claims, putCount, startManifest, r2Manifest,
          run, first>>

\* what the run is given: the input list and the two settings
config == <<imagesList, envFetchAttempts, envConcurrency, maxFetchAttempts, concurrency>>

\* line 260: the pool never has more workers than the list has entries
WorkerIds == 1..MaxEntries
EntryIds == 1..MaxEntries

NoResult == [some |-> FALSE, offerId |-> 0, urls |-> <<>>]
NoProcessed == [buffer |-> 0, mime |-> "", ext |-> ""]

IdleWorker ==
  [pc |-> "idle", current |-> 0, offerId |-> 0, uniqueUrls |-> <<>>, ui |-> 0,
   resolvedUrls |-> <<>>, prevMeta |-> EmptyRec, attempt |-> 0, lastError |-> "",
   conditional |-> FALSE, headers |-> NoHeaders, etag |-> 0, lastModified |-> 0,
   processed |-> NoProcessed, key |-> 0, result |-> NoResult, threw |-> FALSE]

ZeroStats == [uploaded |-> 0, reused304 |-> 0, reusedExisting |-> 0, skipped |-> 0]

NoHist ==
  [outcome |-> "", key |-> 0, gets |-> 0, condGets |-> 0, stale304 |-> 0,
   plainAfterStale |-> 0, transcodes |-> 0, heads |-> 0, puts |-> 0, skips |-> 0,
   pushes |-> 0, writes |-> 0, fetchFails |-> 0, procFails |-> 0, escapes |-> 0]

ZeroHist == [i \in EntryIds |-> [u \in URLS |-> NoHist]]

\* ------------------------------------------------- processOffer, by segment
\* A context: the frame of one worker with the shared objects it reads and
\* writes.  Each operator below runs the code from one point to the next
\* await (or to the return) on a context.
Bump(c, url, field) ==
  [c EXCEPT !.hist[c.w.current][url][field] = @ + 1]

SrcUrl(w) == w.uniqueUrls[w.ui]

\* Return without the test of line 216
ReturnAlways(c) ==
  [c EXCEPT !.w.pc = "returned",
            !.w.result = [some |-> TRUE, offerId |-> c.w.offerId, urls |-> c.w.resolvedUrls]]

\* lines 216-219
Return(c) ==
  [c EXCEPT !.w.pc = "returned",
            !.w.result = IF c.w.resolvedUrls # <<>>
                         THEN [some |-> TRUE, offerId |-> c.w.offerId, urls |-> c.w.resolvedUrls]
                         ELSE NoResult]

\* lines 143-149: the request of one attempt
RequestHeaders(w) ==
  IF w.conditional
  THEN [inm |-> w.prevMeta.etag, ims |-> w.prevMeta.lastModified]
  ELSE NoHeaders

\* AlreadyResolved never finding a record
AlreadyResolvedNever(nm, srcUrl) == FALSE

\* lines 129-132: a record of this run with a stored key resolves the URL
AlreadyResolved(nm, srcUrl) == Has(nm, srcUrl) /\ nm.rec[srcUrl].r2Key # 0

\* line 134
PrevMetaOf(nm, pm, srcUrl) ==
  IF Has(nm, srcUrl) THEN nm.rec[srcUrl]
  ELSE IF Has(pm, srcUrl) THEN pm.rec[srcUrl]
  ELSE EmptyRec

\* line 134: previousManifest[srcUrl] is evaluated when nextManifest has no
\* record of the URL, and throws a TypeError when previousManifest is null
Throws134(nm, pm, srcUrl) == ~Has(nm, srcUrl) /\ IsNull(pm)

\* an error thrown outside the try of the attempt loop rejects processOffer
Escape(c) ==
  [Bump(c, SrcUrl(c.w), "escapes") EXCEPT
     !.w.pc = "returned", !.w.result = NoResult, !.w.threw = TRUE,
     !.hist[c.w.current][SrcUrl(c.w)].outcome = "threw"]

\* line 137
InitialConditional(prevMeta) == prevMeta.etag # 0 \/ prevMeta.lastModified # 0

\* AttemptsLeft without a bound
AttemptsLeftAlways(attempt) == TRUE

\* line 139: the loop goes on while attempts are left
AttemptsLeft(attempt) == attempt < maxFetchAttempts

\* CountsAsSkip when line 141 does not clear the error of an earlier attempt
CountsAsSkipStale(w) == w.lastError # "" \/ w.attempt > 1

\* lines 210-213: a URL whose loop ended with an error is a skip
CountsAsSkip(w) == w.lastError # ""

\* Reuse counting the URL as reusedExisting
ReuseCounted(c) ==
  LET srcUrl == SrcUrl(c.w) IN
  [Bump(c, srcUrl, "pushes") EXCEPT
     !.st.reusedExisting = @ + 1,
     !.w.resolvedUrls = Append(@, PublicUrl(c.nm.rec[srcUrl].r2Key)),
     !.w.ui = @ + 1,
     !.hist[c.w.current][srcUrl].outcome = "reused",
     !.hist[c.w.current][srcUrl].key = c.nm.rec[srcUrl].r2Key]

\* lines 129-132: the URL resolves to the key this run has recorded for it
Reuse(c) ==
  LET srcUrl == SrcUrl(c.w) IN
  [Bump(c, srcUrl, "pushes") EXCEPT
     !.w.resolvedUrls = Append(@, PublicUrl(c.nm.rec[srcUrl].r2Key)),
     !.w.ui = @ + 1,
     !.hist[c.w.current][srcUrl].outcome = "reused",
     !.hist[c.w.current][srcUrl].key = c.nm.rec[srcUrl].r2Key]

RECURSIVE ForLoop(_)
RECURSIVE WhileLoop(_)
RECURSIVE AfterWhile(_)

\* lines 128-137: the head of the for loop over uniqueUrls
ForLoop(c) ==
  IF c.w.ui > Len(c.w.uniqueUrls) THEN Return(c)
  ELSE LET srcUrl == SrcUrl(c.w) IN
    IF AlreadyResolved(c.nm, srcUrl)
    THEN ForLoop(Reuse(c))
    ELSE IF Throws134(c.nm, c.pm, srcUrl) THEN Escape(c)
    ELSE LET prevMeta == PrevMetaOf(c.nm, c.pm, srcUrl) IN
      WhileLoop([c EXCEPT !.w.prevMeta = prevMeta,
                          !.w.attempt = 0,
                          !.w.lastError = "",
                          !.w.conditional = InitialConditional(prevMeta)])

\* lines 139-149: the head of the attempt loop, up to the fetch
WhileLoop(c) ==
  IF AttemptsLeft(c.w.attempt)
  THEN LET headers == RequestHeaders(c.w)
           srcUrl == SrcUrl(c.w)
           h == c.hist[c.w.current][srcUrl]
       IN [c EXCEPT !.w.attempt = @ + 1,
                    !.w.lastError = "",
                    !.w.headers = headers,
                    !.w.pc = "fetch",
                    !.hist[c.w.current][srcUrl] =
                       [h EXCEPT !.gets = @ + 1,
                                 !.condGets = IF headers # NoHeaders THEN @ + 1 ELSE @,
                                 !.plainAfterStale =
                                    IF headers = NoHeaders /\ h.stale304 > 0 THEN @ + 1 ELSE @]]
  ELSE AfterWhile(c)

\* lines 210-214: after the attempt loop, on to the next URL
AfterWhile(c) ==
  LET srcUrl == SrcUrl(c.w)
      h == c.hist[c.w.current][srcUrl]
      skip == CountsAsSkip(c.w)
  IN ForLoop([c EXCEPT
       !.st.skipped = IF skip THEN @ + 1 ELSE @,
       !.hist[c.w.current][srcUrl] =
          [h EXCEPT !.skips = IF skip THEN @ + 1 ELSE @,
                    !.outcome = IF skip THEN "skipped" ELSE IF @ = "" THEN "none" ELSE @],
       !.w.ui = @ + 1,
       !.w.prevMeta = EmptyRec, !.w.attempt = 0, !.w.lastError = "",
       !.w.conditional = FALSE, !.w.headers = NoHeaders, !.w.etag = 0,
       !.w.lastModified = 0, !.w.processed = NoProcessed, !.w.key = 0])

\* DropConditional clearing the validators of the previous record instead
DropConditionalInPlace(c) ==
  [c EXCEPT !.w.conditional = FALSE,
            !.w.prevMeta.etag = 0, !.w.prevMeta.lastModified = 0,
            !.pm.rec[SrcUrl(c.w)].etag = 0, !.pm.rec[SrcUrl(c.w)].lastModified = 0]

\* DropConditional leaving the flag as it is
DropConditionalNot(c) == c

\* lines 158 and 206: conditional = false
DropConditional(c) == [c EXCEPT !.w.conditional = FALSE]

\* lines 202-207: the catch of one attempt; the sleep ends in the next attempt
Catch(c, kind) ==
  LET c1 == [Bump(c, SrcUrl(c.w), IF kind = "fetch" THEN "fetchFails" ELSE "procFails")
              EXCEPT !.w.lastError = kind]
  IN IF c.w.attempt >= maxFetchAttempts
     THEN AfterWhile(c1)
     ELSE WhileLoop(DropConditional(c1))

\* On304 without the carry-forward of line 155
On304NoCarry(c) ==
  LET srcUrl == SrcUrl(c.w) IN
  IF c.w.prevMeta.r2Key # 0
  THEN AfterWhile([Bump(c, srcUrl, "pushes") EXCEPT
         !.st.reused304 = @ + 1,
         !.w.resolvedUrls = Append(@, PublicUrl(c.w.prevMeta.r2Key)),
         !.hist[c.w.current][srcUrl].outcome = "304",
         !.hist[c.w.current][srcUrl].key = c.w.prevMeta.r2Key])
  ELSE WhileLoop([Bump(c, srcUrl, "stale304") EXCEPT !.w.conditional = FALSE])

\* Trusts304 trusting every 304
Trusts304Always(prevMeta) == TRUE

\* line 152: a 304 is trusted when the prior record names a stored object
Trusts304(prevMeta) == prevMeta.r2Key # 0

\* lines 151-160
On304(c) ==
  LET srcUrl == SrcUrl(c.w) IN
  IF Trusts304(c.w.prevMeta)
  THEN AfterWhile([Bump(Bump(c, srcUrl, "pushes"), srcUrl, "writes") EXCEPT
         !.st.reused304 = @ + 1,
         !.w.resolvedUrls = Append(@, PublicUrl(c.w.prevMeta.r2Key)),
         !.nm = Put(@, srcUrl, c.w.prevMeta),
         !.hist[c.w.current][srcUrl].outcome = "304",
         !.hist[c.w.current][srcUrl].key = c.w.prevMeta.r2Key])
  ELSE WhileLoop(DropConditional(Bump(c, srcUrl, "stale304")))

\* StoredKey hashing the bytes as fetched
StoredKeyOfSource(processed, srcUrl, sourceBytes) ==
  KeyOf(Sha1(sourceBytes), processed.ext)

\* lines 173-174
StoredKey(processed, srcUrl, sourceBytes) ==
  KeyOf(Sha1(processed.buffer), processed.ext)

\* lines 166-178: a 2xx response, transcoded and hashed, up to the HEAD
OnFetched(c) ==
  LET srcUrl == SrcUrl(c.w)
      resp == Server(srcUrl)
      contentType == normaliseMime(resp.ctype)
      processed == resizeBuffer(resp.bytes, contentType)
  IN [Bump(Bump(c, srcUrl, "transcodes"), srcUrl, "heads") EXCEPT
        !.w.etag = resp.etag,
        !.w.lastModified = resp.lastModified,
        !.w.processed = processed,
        !.w.key = StoredKey(processed, srcUrl, resp.bytes),
        !.w.pc = "head"]

\* lines 194-201
Record(c) ==
  LET srcUrl == SrcUrl(c.w) IN
  AfterWhile([Bump(Bump(c, srcUrl, "pushes"), srcUrl, "writes") EXCEPT
    !.w.resolvedUrls = Append(@, PublicUrl(c.w.key)),
    !.nm = Put(@, srcUrl, [etag |-> c.w.etag, lastModified |-> c.w.lastModified,
                           r2Key |-> c.w.key, mime |-> c.w.processed.mime]),
    !.hist[c.w.current][srcUrl].outcome = "fresh",
    !.hist[c.w.current][srcUrl].key = c.w.key])

\* headR2 answering "absent" whatever the bucket holds
headR2Absent(objects, key) == FALSE

\* lines 77-85: headR2's answer for a key
headR2(objects, key) == key \in objects

\* OnHead recording the URL before the object is known to be stored
OnHeadEager(c, exists) == Record(c)

\* lines 183-192 when the object exists, and the call of putR2 when not
OnHead(c, exists) ==
  IF ~exists
  THEN [c EXCEPT !.w.pc = "put"]
  ELSE Record([c EXCEPT !.st.reusedExisting = @ + 1])

\* OnPut losing the count of line 186
OnPutUncounted(c) == Record(Bump(c, SrcUrl(c.w), "puts"))

\* lines 185-186 and 194-201: the PUT went through
OnPut(c) ==
  Record([Bump(c, SrcUrl(c.w), "puts") EXCEPT !.st.uploaded = @ + 1])

\* UniqueUrls without the Set
UniqueUrlsNoSet(urls) == NonBlank(TrimAll(urls))

\* line 123
UniqueUrls(urls) == Dedup(NonBlank(TrimAll(urls)))

\* lines 118-126
\* Invalid that lets every entry through
InvalidNever(entry) == FALSE

\* line 121: !offerId || !Array.isArray(urls) || !urls.length
Invalid(entry) == entry.offerId = 0 \/ ~entry.isArray \/ entry.urls = <<>>

ProcessOffer(c, entry) ==
  IF Invalid(entry)
  THEN Return([c EXCEPT !.w.resolvedUrls = <<>>, !.w.uniqueUrls = <<>>, !.w.ui = 0,
                        !.w.offerId = 0])
  ELSE LET uniqueUrls == UniqueUrls(entry.urls) IN
    IF uniqueUrls = <<>>
    THEN Return([c EXCEPT !.w.resolvedUrls = <<>>, !.w.uniqueUrls = <<>>, !.w.ui = 0,
                          !.w.offerId = 0])
    ELSE ForLoop([c EXCEPT !.w.offerId = entry.offerId,
                           !.w.uniqueUrls = uniqueUrls,
                           !.w.ui = 1,
                           !.w.resolvedUrls = <<>>])

\* Advance leaving the cursor where it is
AdvanceNot(cursor) == cursor

\* line 263: index++
Advance(cursor) == cursor + 1

\* lines 262-267: claim the next entry, or leave the loop
Claim(c) ==
  LET current == c.index IN
  IF current > Len(imagesList)
  THEN [c EXCEPT !.index = Advance(@), !.w = [IdleWorker EXCEPT !.pc = "done"]]
  ELSE ProcessOffer([c EXCEPT !.index = Advance(@),
                              !.claims[current] = @ + 1,
                              !.w = [IdleWorker EXCEPT !.current = current]],
                    imagesList[current])

\* Rejected without the count of line 276
RejectedUncounted(c) == c

\* lines 275-278: the worker catches the error of processOffer
Rejected(c) == [c EXCEPT !.st.skipped = @ + 1]

\* lines 274-279 and back to 262: processOffer settled; the worker goes on
Resumed(c) ==
  IF c.w.threw
  THEN Claim(Rejected(c))
  ELSE Claim([c EXCEPT !.res = IF c.w.result.some
                               THEN Append(@, [offerId |-> c.w.result.offerId,
                                               urls |-> c.w.result.urls])
                               ELSE @])

\* ------------------------------------------------------------ actions
Min(a, b) == IF a < b THEN a ELSE b

KEYS == {FreshKey(u) : u \in URLS} \cup UNION {KeysOf(pm) : pm \in PrevManifests}

NoFirst == [manifest |-> <<>>, offers |-> <<>>]

RunReset ==
  /\ r2ManifestPuts = 0
  /\ mainPc = "start"
  /\ previousManifest = EmptyManifest
  /\ nextManifest = EmptyManifest
  /\ stats = ZeroStats
  /\ offerResults = <<>>
  /\ index = 1
  /\ workerCount = 0
  /\ workers = [i \in WorkerIds |-> IdleWorker]
  /\ hist = ZeroHist
  /\ claims = [e \in EntryIds |-> 0]
  /\ putCount = [k \in KEYS |-> 0]

\* lines 18-19: the settings are read once, when the module loads
Settings(attempts, workerSlots) ==
  /\ envFetchAttempts \in attempts
  /\ envConcurrency \in workerSlots
  /\ maxFetchAttempts = MAX_FETCH_ATTEMPTS(envFetchAttempts)
  /\ concurrency = CONCURRENCY(envConcurrency)

InitWith(faults) ==
  /\ imagesList \in InputLists
  /\ Settings({Num(n) : n \in 1..MaxAttempts}, {Num(n) : n \in 1..MaxConcurrency})
  /\ diskManifest \in {ManifestString(pm) : pm \in PrevManifests}
  /\ startManifest = diskManifest
  /\ r2Manifest = diskManifest
  /\ diskOffers = <<>>
  /\ store = KeysOf(ParseManifest(diskManifest))
  /\ faultsLeft = faults
  /\ run = 1
  /\ first = NoFirst
  /\ RunReset

Init == InitWith(MaxFaults)

Ctx(i) ==
  [w |-> workers[i], nm |-> nextManifest, pm |-> previousManifest, st |-> stats,
   hist |-> hist, claims |-> claims, index |-> index, res |-> offerResults]

\* the shared objects after a worker's step
Apply(c, i) ==
  /\ workers' = [workers EXCEPT ![i] = c.w]
  /\ nextManifest' = c.nm
  /\ previousManifest' = c.pm
  /\ stats' = c.st
  /\ hist' = c.hist
  /\ claims' = c.claims
  /\ index' = c.index
  /\ offerResults' = c.res

RECURSIVE Spawn(_, _, _, _)
\* line 261: Array.from starts the workers in turn, each up to its first await
Spawn(c, ws, i, n) ==
  IF i > n THEN [c |-> c, ws |-> ws]
  ELSE LET c1 == Claim(c) IN Spawn(c1, [ws EXCEPT ![i] = c1.w], i + 1, n)

\* WorkerCount ignoring the length of the list
WorkerCountConfigured(configured, length) == configured

\* line 260
WorkerCount(configured, length) == Min(configured, length)

\* lines 233-240: nothing to process
StartEmpty ==
  /\ mainPc = "start"
  /\ imagesList = <<>>
  /\ diskOffers' = <<>>
  /\ diskManifest' = <<>>
  /\ mainPc' = "done"
  /\ UNCHANGED <<config, store, r2ManifestPuts,
                 previousManifest, nextManifest, stats, offerResults, index,
                 workerCount, workers, faultsLeft, hist, claims, putCount,
                 startManifest, r2Manifest, run, first>>

\* InitialNextManifest starting from the previous records
InitialNextManifestMerged(previous) == previous

\* line 245: const nextManifest = {}
InitialNextManifest(previous) == EmptyManifest

\* lines 242-261: load the previous manifest and start the pool
Start ==
  /\ mainPc = "start"
  /\ imagesList # <<>>
  /\ LET pm == ParseManifest(diskManifest)
         n == WorkerCount(concurrency, Len(imagesList))
         c0 == [w |-> IdleWorker, nm |-> InitialNextManifest(pm), pm |-> pm,
                st |-> ZeroStats, hist |-> hist, claims |-> claims, index |-> 1,
                res |-> <<>>]
         r == Spawn(c0, workers, 1, n)
     IN /\ previousManifest' = r.c.pm
        /\ workerCount' = n
        /\ workers' = r.ws
        /\ nextManifest' = r.c.nm
        /\ stats' = r.c.st
        /\ hist' = r.c.hist
        /\ claims' = r.c.claims
        /\ index' = r.c.index
        /\ offerResults' = r.c.res
  /\ mainPc' = "pool"
  /\ UNCHANGED <<config, diskManifest, diskOffers,
                 store, r2ManifestPuts, faultsLeft, putCount, startManifest,
                 r2Manifest, run, first>>

Outcomes == IF faultsLeft > 0 THEN {"ok", "error"} ELSE {"ok"}

Spend(outcome) == faultsLeft' = IF outcome = "ok" THEN faultsLeft ELSE faultsLeft - 1

Frame ==
  UNCHANGED <<config, diskManifest, diskOffers,
              r2ManifestPuts, mainPc, workerCount, startManifest,
              r2Manifest, run, first>>

\* lines 149-172: the response to the GET, its body and the transcoding
FetchDone(i) ==
  /\ workers[i].pc = "fetch"
  /\ \E outcome \in Outcomes \cup (IF faultsLeft > 0 THEN {"transcode"} ELSE {}) :
       /\ Spend(outcome)
       /\ LET c == Ctx(i)
              srcUrl == SrcUrl(c.w)
          IN Apply(CASE outcome = "error" -> Catch(c, "fetch")
                     [] outcome = "transcode" -> Catch(Bump(c, srcUrl, "transcodes"), "transcode")
                     [] OTHER -> IF NotModified(srcUrl, c.w.headers)
                                 THEN On304(c) ELSE OnFetched(c), i)
  /\ UNCHANGED <<store, putCount>>
  /\ Frame

\* lines 176-192: the answer to the HEAD
HeadDone(i) ==
  /\ workers[i].pc = "head"
  /\ \E outcome \in Outcomes :
       /\ Spend(outcome)
       /\ LET c == Ctx(i)
          IN Apply(IF outcome = "ok"
                   THEN OnHead(c, headR2(store, c.w.key))
                   ELSE Catch(c, "head"), i)
  /\ UNCHANGED <<store, putCount>>
  /\ Frame

\* lines 184-201: the answer to the PUT
PutDone(i) ==
  /\ workers[i].pc = "put"
  /\ \E outcome \in Outcomes :
       /\ Spend(outcome)
       /\ LET c == Ctx(i)
          IN /\ Apply(IF outcome = "ok" THEN OnPut(c) ELSE Catch(c, "put"), i)
             /\ store' = IF outcome = "ok" THEN store \cup {c.w.key} ELSE store
             /\ putCount' = IF outcome = "ok"
                            THEN [putCount EXCEPT ![c.w.key] = @ + 1] ELSE putCount
  /\ Frame

\* lines 267-279: processOffer has returned; record the result, claim again
Resume(i) ==
  /\ workers[i].pc = "returned"
  /\ Apply(Resumed(Ctx(i)), i)
  /\ UNCHANGED <<store, putCount, faultsLeft>>
  /\ Frame

\* SortedOffers without the sort of line 289
SortedOffersArrival(results) ==
  [i \in 1..Len(results) |->
     [offerId |-> results[i].offerId, urls |-> SortNums(Dedup(results[i].urls))]]

\* lines 284-289
SortedOffers(results) ==
  SortOffers([i \in 1..Len(results) |->
                [offerId |-> results[i].offerId,
                 urls |-> SortNums(Dedup(results[i].urls))]])

\* line 295
ManifestChanged(next, previous) == ManifestString(next) # ManifestString(previous)

\* PoolSettled as soon as one worker has left its loop
PoolSettledAny(ws, n) == \E i \in 1..n : ws[i].pc = "done"

\* line 282: await Promise.all(workers)
PoolSettled(ws, n) == \A i \in 1..n : ws[i].pc = "done"

\* lines 282-310: every worker has left its loop; write the outputs
Finish ==
  /\ mainPc = "pool"
  /\ PoolSettled(workers, workerCount)
  /\ diskOffers' = SortedOffers(offerResults)
  /\ diskManifest' = ManifestString(nextManifest)
  /\ IF ManifestChanged(nextManifest, previousManifest)
     THEN \E outcome \in Outcomes :
            /\ Spend(outcome)
            /\ r2ManifestPuts' = r2ManifestPuts + 1
            /\ r2Manifest' = IF outcome = "ok" THEN ManifestString(nextManifest)
                             ELSE r2Manifest
     ELSE UNCHANGED <<faultsLeft, r2ManifestPuts, r2Manifest>>
  /\ mainPc' = "done"
  /\ UNCHANGED <<config, store, previousManifest,
                 nextManifest, stats, offerResults, index, workerCount, workers,
                 hist, claims, putCount, startManifest, run, first>>

Next ==
  \/ StartEmpty
  \/ Start
  \/ \E i \in WorkerIds : FetchDone(i)
  \/ \E i \in WorkerIds : HeadDone(i)
  \/ \E i \in WorkerIds : PutDone(i)
  \/ \E i \in WorkerIds : Resume(i)
  \/ Finish

Spec == Init /\ [][Next]_vars

\* ------------------------------------------------ two runs, nothing failing
InitStable == InitWith(0)

\* the script is run again on what the first run left on disk and in the bucket
Rerun ==
  /\ mainPc = "done"
  /\ run = 1
  /\ run' = 2
  /\ first' = [manifest |-> diskManifest, offers |-> diskOffers]
  /\ startManifest' = diskManifest
  /\ r2ManifestPuts' = 0
  /\ mainPc' = "start"
  /\ previousManifest' = EmptyManifest
  /\ nextManifest' = EmptyManifest
  /\ stats' = ZeroStats
  /\ offerResults' = <<>>
  /\ index' = 1
  /\ workerCount' = 0
  /\ workers' = [i \in WorkerIds |-> IdleWorker]
  /\ hist' = ZeroHist
  /\ claims' = [e \in EntryIds |-> 0]
  /\ putCount' = [k \in KEYS |-> 0]
  /\ UNCHANGED <<config, diskManifest, diskOffers,
                 store, faultsLeft, r2Manifest>>

NextStable == Next \/ Rerun

SpecStable == InitStable /\ [][NextStable]_vars

\* ------------------------------------- one run under any value of a setting
\* the values a setting can have: unset or unparsable, negative, zero, positive
AnySetting(most) == {NaN} \cup {Num(n) : n \in (0 - 1)..most}

InitConfig ==
  /\ imagesList \in InputLists
  /\ Settings(AnySetting(MaxAttempts), AnySetting(MaxConcurrency))
  /\ diskManifest \in {ManifestString(pm) : pm \in PrevManifests}
  /\ startManifest = diskManifest
  /\ r2Manifest = diskManifest
  /\ diskOffers = <<>>
  /\ store = KeysOf(ParseManifest(diskManifest))
  /\ faultsLeft = LiveFaults
  /\ run = 1
  /\ first = NoFirst
  /\ RunReset

SpecConfig == InitConfig /\ [][Next]_vars

\* -------------------------------------------------------------- claims
RECURSIVE SumOver(_, _)
\* the sum of the values of f over the finite set S
SumOver(f, S) ==
  IF S = {} THEN 0
  ELSE LET x == CHOOSE y \in S : TRUE IN f[x] + SumOver(f, S \ {x})

\* the sum of the values of a function with a finite domain
SumFn(f) == SumOver(f, DOMAIN f)

Cells == EntryIds \X URLS
H(cell) == hist[cell[1]][cell[2]]
Finished(cell) == H(cell).outcome # ""
\* the skips the processors have recorded
SkipsRecorded == SumFn([x \in Cells |-> H(x).skips])
\* the errors that escaped a processor, and those a worker has caught so far
Thrown == SumFn([x \in Cells |-> H(x).escapes])
Caught == Thrown - Cardinality({j \in WorkerIds : workers[j].threw})
NoDup(xs) == \A a, b \in 1..Len(xs) : xs[a] = xs[b] => a = b
Ascending(xs) == \A a, b \in 1..Len(xs) : a < b => xs[a] <= xs[b]

\* worker j received the answer to its GET in this step, and it was no failure
GetAnswered(j) ==
  workers[j].pc = "fetch" /\ workers'[j] # workers[j] /\ faultsLeft' = faultsLeft

\* worker j received the answer to its HEAD in this step, and it was no failure
HeadAnswered(j) ==
  workers[j].pc = "head" /\ workers'[j] # workers[j] /\ faultsLeft' = faultsLeft

\* the URLs worker j has resolved for its entry, as the worker's next state holds them
ResolvedAfter(j) ==
  IF workers'[j].current = workers[j].current /\ workers'[j].pc # "returned"
  THEN workers'[j].resolvedUrls
  ELSE workers'[j].result.urls

\* C1: a second run over what the first run wrote, with the same input and an
\* unchanged origin and nothing failing, writes the same manifest text and
\* the same per-entry output.
C1_Idempotent ==
  (run = 2 /\ mainPc = "done") =>
     (diskManifest = first.manifest /\ diskOffers = first.offers)

\* C2: when the prior record of a URL has a stored key and the origin answers
\* 304 to the conditional GET, that step resolves the URL to the prior key,
\* copies the prior record into the next manifest, adds exactly one to
\* reused304 and to no other counter, and the URL sees no transcode, no HEAD
\* and no PUT.
C2_ConditionalReuse ==
  [][\A j \in WorkerIds :
       (/\ GetAnswered(j)
        /\ NotModified(SrcUrl(workers[j]), workers[j].headers)
        /\ workers[j].prevMeta.r2Key # 0)
       => LET w == workers[j]
              u == SrcUrl(w)
              h == hist'[w.current][u]
          IN /\ w.prevMeta = previousManifest.rec[u]
             /\ InitialConditional(w.prevMeta)
             /\ stats' = [stats EXCEPT !.reused304 = @ + 1]
             /\ Has(nextManifest', u)
             /\ nextManifest'.rec[u] = w.prevMeta
             /\ Len(ResolvedAfter(j)) > Len(w.resolvedUrls)
             /\ ResolvedAfter(j)[Len(w.resolvedUrls) + 1] = PublicUrl(w.prevMeta.r2Key)
             /\ h.outcome = "304"
             /\ h.transcodes = 0 /\ h.heads = 0 /\ h.puts = 0
             /\ workers'[j].pc \notin {"head", "put"} \/ workers'[j].ui # w.ui
             /\ store' = store
             /\ putCount' = putCount]_vars

C2_Witness == \E cell \in Cells : H(cell).outcome = "304"

\* C3: whatever the attempt budget, a URL whose 304 was rejected for lack of a
\* stored key gets a later GET without conditional headers before its
\* processor is done with it.
C3_StaleRecovery ==
  \A cell \in Cells :
    (Finished(cell) /\ H(cell).stale304 > 0) => H(cell).plainAfterStale > 0

\* C4: a URL whose first N-1 GETs fail and whose N-th GET, transcode and store
\* steps succeed (N the attempt budget) is resolved once, has a record in the
\* next manifest and is not counted as skipped.
C4_RetrySuccess ==
  \A cell \in Cells :
    (/\ Finished(cell)
     /\ H(cell).gets = maxFetchAttempts
     /\ H(cell).fetchFails = maxFetchAttempts - 1
     /\ H(cell).procFails = 0
     /\ H(cell).stale304 = 0)
    => /\ H(cell).outcome \in {"fresh", "304"}
       /\ H(cell).skips = 0
       /\ H(cell).pushes = 1
       /\ H(cell).writes = 1
       /\ Has(nextManifest, cell[2])
       /\ nextManifest.rec[cell[2]].r2Key # 0
       /\ stats.skipped = SkipsRecorded

C4_Witness ==
  \E cell \in Cells :
    /\ maxFetchAttempts >= 2
    /\ H(cell).fetchFails = maxFetchAttempts - 1
    /\ H(cell).outcome = "fresh"

\* the entries of the input whose processor resolved at least one URL
ResolvedEntries(id) ==
  {i \in 1..Len(imagesList) :
     imagesList[i].offerId = id /\ \E u \in URLS : hist[i][u].pushes > 0}

\* C5: a URL whose every attempt failed is counted as skipped exactly once,
\* gets no manifest write from its processor and adds no resolved URL; in the
\* output of a run there is one entry per input entry that resolved a URL, and
\* no other.
C5_Exhaustion ==
  /\ \A cell \in Cells :
       (Finished(cell) /\ H(cell).fetchFails + H(cell).procFails = maxFetchAttempts)
       => /\ H(cell).outcome = "skipped"
          /\ H(cell).skips = 1
          /\ H(cell).writes = 0
          /\ H(cell).pushes = 0
  /\ stats.skipped = SkipsRecorded + Caught
  /\ (mainPc = "done" /\ imagesList # <<>>) =>
       \A id \in 0..3 :
         Cardinality({k \in 1..Len(diskOffers) : diskOffers[k].offerId = id})
           = Cardinality(ResolvedEntries(id))

C5_Witness ==
  /\ mainPc = "done"
  /\ \E i \in 1..Len(imagesList) :
       /\ \E u \in URLS : hist[i][u].outcome = "skipped"
       /\ \A u \in URLS : hist[i][u].pushes = 0
       /\ \A k \in 1..Len(diskOffers) : diskOffers[k].offerId # imagesList[i].offerId

\* what sharp makes of the content of a URL: the bytes and the extension
Transcoded(u) ==
  LET p == resizeBuffer(Server(u).bytes, normaliseMime(Server(u).ctype))
  IN <<p.buffer, p.ext>>

\* C6: the key of a freshly fetched URL depends on the transcoded bytes and
\* the extension alone: two fresh fetches whose transcoded bytes and extension
\* agree are recorded under the same key and resolve to the same public URL,
\* and the record written for a fresh fetch carries that key.
C6_ContentAddressing ==
  /\ [](\A c1 \in Cells : H(c1).outcome = "fresh" =>
          \A c2 \in Cells :
            (H(c2).outcome = "fresh" /\ Transcoded(c1[2]) = Transcoded(c2[2]))
            => /\ H(c1).key = H(c2).key
               /\ PublicUrl(H(c1).key) = PublicUrl(H(c2).key))
  /\ [][\A cell \in Cells :
          (H(cell).outcome # "fresh" /\ hist'[cell[1]][cell[2]].outcome = "fresh")
          => /\ nextManifest'.rec[cell[2]].r2Key = hist'[cell[1]][cell[2]].key
             /\ hist'[cell[1]][cell[2]].key # 0]_vars

C6_Witness ==
  \E c1, c2 \in Cells :
    /\ c1[2] # c2[2]
    /\ Server(c1[2]).bytes # Server(c2[2]).bytes
    /\ H(c1).outcome = "fresh" /\ H(c2).outcome = "fresh"
    /\ H(c1).key = H(c2).key
    /\ nextManifest.rec[c1[2]].r2Key = nextManifest.rec[c2[2]].r2Key

\* C7 as stated: in one run no key is PUT more than once.
C7_UploadOnce == \A k \in KEYS : putCount[k] <= 1

\* C7 as amended: in one run a key is PUT at most once by each worker (at
\* most once with a single worker), uploaded counts the PUTs, and a fresh
\* fetch whose HEAD is answered when the object exists adds one to
\* reusedExisting and issues no PUT.
C7_UploadOncePerWorker ==
  /\ [](/\ \A k \in KEYS : putCount[k] <= workerCount
        /\ stats.uploaded = SumFn(putCount))
  /\ [][\A j \in WorkerIds :
          (HeadAnswered(j) /\ workers[j].key \in store)
          => /\ stats' = [stats EXCEPT !.reusedExisting = @ + 1]
             /\ putCount' = putCount
             /\ workers'[j].pc # "put" \/ workers'[j].ui # workers[j].ui]_vars

C7_Witness ==
  \E k \in KEYS : workerCount = 2 /\ putCount[k] = 2 /\ stats.uploaded >= 2

\* C8: the processor of an entry handles each distinct trimmed URL once, and
\* no entry of the final output lists a resolved URL twice, also when two
\* source URLs of the entry resolve to the same object.
C8_DedupWithinEntry ==
  /\ \A j \in WorkerIds : NoDup(workers[j].uniqueUrls)
  /\ \A cell \in Cells : H(cell).pushes <= 1 /\ H(cell).gets <= maxFetchAttempts
  /\ mainPc = "done" => \A k \in 1..Len(diskOffers) : NoDup(diskOffers[k].urls)

C8_Witness ==
  /\ mainPc = "done"
  /\ \E i \in 1..Len(imagesList), u1, u2 \in URLS :
       /\ u1 # u2
       /\ hist[i][u1].pushes = 1 /\ hist[i][u2].pushes = 1
       /\ hist[i][u1].key = hist[i][u2].key
       /\ \E k \in 1..Len(diskOffers) :
            /\ diskOffers[k].offerId = imagesList[i].offerId
            /\ Len(diskOffers[k].urls) = 1
  /\ \E i \in 1..Len(imagesList) : ~NoDup(TrimAll(imagesList[i].urls))

\* C9: the final per-entry output is ordered by identifier and the resolved
\* URLs of each entry are in ascending order, whatever order the workers
\* finished in.
C9_Sorting ==
  (mainPc = "done" /\ imagesList # <<>>) =>
     /\ Ascending([k \in 1..Len(diskOffers) |-> diskOffers[k].offerId])
     /\ \A k \in 1..Len(diskOffers) : Ascending(diskOffers[k].urls)
     /\ Len(diskOffers) = Len(offerResults)

C9_Witness ==
  /\ mainPc = "done"
  /\ ~Ascending([k \in 1..Len(offerResults) |-> offerResults[k].offerId])
  /\ \E k \in 1..Len(offerResults) : ~Ascending(offerResults[k].urls)

\* C10: at the end of every run, a run over an empty input included, the
\* manifest was sent to the bucket exactly when the manifest text this run
\* wrote differs from the text of the previous manifest.
C10_MirrorIffChanged ==
  mainPc = "done" => ((r2ManifestPuts > 0) <=> (diskManifest # startManifest))

\* the workers the pool has started
Started == {i \in WorkerIds : workers[i].pc # "idle"}

\* C11: the pool starts min(c, length of the list) workers, where c is the
\* configured concurrency when that is 1 or more, and 1 for every configured
\* number below 1, zero and the negative numbers included.
C11_ConcurrencyClamp ==
  (mainPc # "start" /\ imagesList # <<>> /\ ~envConcurrency.nan) =>
    LET c == IF envConcurrency.n >= 1 THEN envConcurrency.n ELSE 1
    IN /\ workerCount = Min(c, Len(imagesList))
       /\ Cardinality(Started) = Min(c, Len(imagesList))

\* the workers that hold entry e: claimed it and have not yet claimed again
Holders(e) == {j \in WorkerIds : workers[j].current = e}

\* C12: the cursor hands every entry of the list to exactly one worker,
\* exactly once: no entry is claimed twice or held by two workers, the entries
\* below the cursor are the claimed ones, and when every worker has left its
\* loop no entry is unclaimed.
C12_ClaimedOnce ==
  /\ \A e \in EntryIds :
       /\ claims[e] <= 1
       /\ Cardinality(Holders(e)) <= claims[e]
       /\ claims[e] = 1 <=> (e < index /\ e <= Len(imagesList))
  /\ (mainPc # "start" /\ PoolSettled(workers, workerCount)) =>
       \A e \in 1..Len(imagesList) : claims[e] = 1

C12_Witness ==
  /\ mainPc = "done"
  /\ Len(imagesList) = 3
  /\ workerCount = 2
  /\ \A e \in 1..3 : claims[e] = 1

\* the three objects the workers share
Shared == <<nextManifest, stats, offerResults>>

\* the two output files
Outputs == <<diskOffers, diskManifest>>

\* C13: the output files (and the mirror of the manifest) are written only
\* when every worker has left its claim loop with the cursor past the end of
\* the list and no entry is still being processed; from then on no worker
\* step happens and the next manifest, the statistics and the results stay
\* as they are.
C13_OutputAfterPool ==
  /\ []((mainPc = "done" /\ imagesList # <<>>) =>
          /\ \A j \in 1..workerCount : workers[j].pc = "done"
          /\ index > Len(imagesList)
          /\ \A e \in EntryIds : Holders(e) = {}
          /\ diskOffers = SortedOffers(offerResults)
          /\ diskManifest = ManifestString(nextManifest))
  /\ [][ /\ (Outputs' # Outputs \/ r2Manifest' # r2Manifest) =>
              (imagesList = <<>> \/ PoolSettled(workers, workerCount))
         /\ mainPc = "done" => (Shared' = Shared /\ workers' = workers) ]_vars

C13_Witness ==
  /\ mainPc = "done"
  /\ workerCount = 2
  /\ Len(offerResults) >= 2
  /\ stats.skipped > 0
  /\ nextManifest # EmptyManifest

\* --------------------------------------------- one run, every call answered
\* a step of the run is ready: main before the pool, a worker whose call is
\* to answer or whose processOffer has returned, main when the pool settled
Ready ==
  \/ mainPc = "start"
  \/ \E i \in WorkerIds : workers[i].pc \in {"fetch", "head", "put", "returned"}
  \/ mainPc = "pool" /\ PoolSettled(workers, workerCount)

\* Every awaited call returns or throws, and the event loop runs every
\* continuation that is ready: weak fairness of the steps of the run.  For
\* the step of the empty input it is stated with WF; for Next as a whole it
\* is WF_vars(Next) with ENABLED <<Next>>_vars written out as Ready.
Fairness ==
  /\ WF_vars(StartEmpty)
  /\ []<>(~Ready) \/ []<><<Next>>_vars

InitLive == InitWith(LiveFaults)

SpecLive == InitLive /\ [][Next]_vars /\ Fairness

\* C14: with every call answered the run completes: no URL is requested more
\* often than the attempt budget, a step is ready as long as the run is not
\* done, and the run reaches its end with every worker out of its claim loop
\* and the cursor past the end of the list.
C14_Terminates ==
  /\ <>(/\ mainPc = "done"
        /\ \A j \in 1..workerCount : workers[j].pc = "done"
        /\ imagesList # <<>> => index > Len(imagesList))
  /\ [](mainPc # "done" => Ready)
  /\ [](\A cell \in Cells : H(cell).gets <= maxFetchAttempts)

C14_Witness ==
  /\ mainPc = "done"
  /\ workerCount = 2
  /\ Len(imagesList) = 3
  /\ \E cell \in Cells : H(cell).gets = 2 /\ H(cell).fetchFails = 1

\* worker j's call failed in this step
FailedCall(j) == faultsLeft' < faultsLeft /\ workers'[j] # workers[j]

\* worker j caught the error of its processOffer in this step
CaughtBy(j) == workers[j].threw /\ workers'[j] # workers[j]

\* the other workers and main are where they were
OthersUntouched(j) ==
  /\ \A k \in WorkerIds \ {j} : workers'[k] = workers[k]
  /\ mainPc' = mainPc

\* the run has ended and the output files are written
OutputWritten ==
  /\ mainPc = "done"
  /\ diskOffers = SortedOffers(offerResults)
  /\ diskManifest = ManifestString(nextManifest)

\* C15: no failure of a call and no error that escapes a processor aborts the
\* pool or the run.  A failed call leaves its worker at its next request or
\* at the return of the entry, with at most one skip counted; an escaped
\* error is counted as one skip by the worker, which claims the next entry
\* and adds no result; the other workers are not touched; and after any such
\* failure the run still ends with its output files written.
C15_FailureIsolation ==
  /\ [][\A j \in WorkerIds :
          /\ FailedCall(j) =>
               /\ OthersUntouched(j)
               /\ workers'[j].pc \in {"fetch", "returned"}
               /\ stats'.skipped - stats.skipped \in {0, 1}
          /\ CaughtBy(j) =>
               /\ OthersUntouched(j)
               /\ stats'.skipped = stats.skipped + 1
               /\ offerResults' = offerResults
               /\ index' = index + 1
               /\ workers'[j].pc = "done" \/ workers'[j].current = index]_vars
  /\ (Thrown > 0 \/ faultsLeft < LiveFaults) ~> OutputWritten

C15_Witness ==
  /\ OutputWritten
  /\ startManifest = NullText
  /\ workerCount = 2
  /\ Thrown = 3
  /\ stats.skipped = 3

\* C16: a URL whose transcoding, existence check or upload failed after a
\* successful fetch is requested no further: its processor is through with
\* it, has counted exactly one skip for it, and that failure was its only one
\* of this kind.
C16_ProcessingTerminal ==
  \A cell \in Cells :
    H(cell).procFails > 0 =>
      /\ H(cell).outcome = "skipped"
      /\ H(cell).skips = 1
      /\ H(cell).procFails = 1

\* C17: a URL that a processor is through with has exactly one outcome: it
\* was resolved (one resolved URL, no skip), or it was counted as a skip (by
\* the processor, or by the worker when the processor threw) and not
\* resolved; none ends with neither.
C17_ExactlyOneOutcome ==
  \A cell \in Cells :
    Finished(cell) =>
      LET h == H(cell)
      IN \/ h.pushes = 1 /\ h.skips = 0 /\ h.escapes = 0
         \/ h.pushes = 0 /\ h.skips = 1 /\ h.escapes = 0
         \/ h.pushes = 0 /\ h.skips = 0 /\ h.escapes = 1

\* C18: from its load to the end of the run the previous manifest is what
\* was read from the file: no step of a processor changes it, the step that
\* carries a record forward on a 304 and the steps that drop the conditional
\* headers included; a record carried forward is in both manifests.
C18_PreviousReadOnly ==
  /\ (mainPc # "start" /\ imagesList # <<>>) =>
       previousManifest = ParseManifest(startManifest)
  /\ \A cell \in Cells :
       H(cell).outcome = "304" =>
         /\ Has(previousManifest, cell[2])
         /\ previousManifest.rec[cell[2]].r2Key = H(cell).key
         /\ Has(nextManifest, cell[2])

C18_Witness ==
  /\ mainPc = "done"
  /\ stats.reused304 > 0
  /\ \E cell \in Cells : H(cell).condGets > 0 /\ H(cell).fetchFails > 0
  /\ \E u \in URLS : /\ Has(previousManifest, u) /\ Has(nextManifest, u)
                     /\ nextManifest.rec[u] = previousManifest.rec[u]
                     /\ \E i \in EntryIds : hist[i][u].outcome = "304"

\* the URLs with a record in the manifest file as the run found it, and as
\* the run left it
UrlsBefore == {u \in URLS : Has(ParseManifest(startManifest), u)}
UrlsAfter == {u \in URLS : Has(ParseManifest(diskManifest), u)}

\* C19: a run removes no record: every URL with a record in the previous
\* manifest has a record in the manifest the run leaves behind, whether the
\* input names the URL or not and whether it was resolved or skipped.
C19_RecordsAccumulate ==
  mainPc = "done" => UrlsBefore \subseteq UrlsAfter

\* the URLs for which a processor wrote a record into the next manifest
UrlsWritten == {u \in URLS : \E i \in EntryIds : hist[i][u].writes > 0}

\* C20: the manifest a run leaves behind is the next manifest: it has a
\* record for exactly the URLs for which a processor wrote one in this run,
\* so a previous record of any other URL is gone.
C20_FullReplacement ==
  mainPc = "done" =>
    /\ UrlsAfter = UrlsWritten
    /\ diskManifest = ManifestString(nextManifest)
    /\ \A u \in UrlsBefore \ UrlsWritten : u \notin UrlsAfter

C20_Witness ==
  /\ mainPc = "done"
  /\ UrlsBefore \ UrlsAfter # {}
  /\ \E u \in UrlsBefore \cap UrlsAfter : \E i \in EntryIds : hist[i][u].outcome = "304"
  /\ \E u \in UrlsAfter \ UrlsBefore : \E i \in EntryIds : hist[i][u].outcome = "fresh"

\* the entries whose processor wrote a record for URL u into the next manifest
Writers(u) == {i \in EntryIds : hist[i][u].writes > 0}

\* the entries of the input that a processor handles and that name URL u
Naming(u) ==
  {i \in 1..Len(imagesList) :
     /\ imagesList[i].offerId # 0 /\ imagesList[i].isArray
     /\ u \in SeqToSet(UniqueUrls(imagesList[i].urls))}

\* C21 as stated: no key of the next manifest is written for two entries,
\* hence by two workers.
C21_DisjointWrites == \A u \in URLS : Cardinality(Writers(u)) <= 1

\* C21 as amended: a processor writes the key of a URL at most once; a key is
\* written only for entries that name the URL; and it is written for one
\* entry at most when a single worker runs or one entry alone names the URL.
C21_DisjointWritesPerEntry ==
  \A u \in URLS :
    /\ \A i \in EntryIds : hist[i][u].writes <= 1
    /\ Writers(u) \subseteq Naming(u)
    /\ (workerCount <= 1 \/ Cardinality(Naming(u)) <= 1) =>
         Cardinality(Writers(u)) <= 1

C21_Witness ==
  /\ mainPc = "done"
  /\ workerCount = 1
  /\ \E u \in URLS : Cardinality(Naming(u)) = 2 /\ Cardinality(Writers(u)) = 1

\* the URLs counted in one of the four statistics
Counted == stats.uploaded + stats.reused304 + stats.reusedExisting + stats.skipped

\* the cells whose processor ended with an outcome that is counted
CountedCells == {cell \in Cells : H(cell).outcome \in {"304", "fresh", "skipped"}}

\* C22: a processor that comes to a URL for which the next manifest holds a
\* record with a stored key resolves the URL to that key and does nothing
\* else for it: no GET, no transcoding, no HEAD, no PUT, no manifest write
\* and no count in the statistics; and no processor issues a first GET for a
\* URL that has such a record.
C22_ReuseWritten ==
  /\ [](\A cell \in Cells : H(cell).outcome = "reused" =>
          /\ H(cell).gets = 0 /\ H(cell).transcodes = 0
          /\ H(cell).heads = 0 /\ H(cell).puts = 0
          /\ H(cell).writes = 0 /\ H(cell).skips = 0
          /\ H(cell).pushes = 1)
  /\ [](Counted = Cardinality(CountedCells) + Caught)
  /\ [][\A cell \in Cells :
          LET h == H(cell)
              h1 == hist'[cell[1]][cell[2]]
          IN /\ (h.outcome = "" /\ h1.outcome = "reused") =>
                  /\ AlreadyResolved(nextManifest, cell[2])
                  /\ h1.key = nextManifest.rec[cell[2]].r2Key
                  /\ nextManifest'.rec[cell[2]] = nextManifest.rec[cell[2]]
             /\ (h.gets = 0 /\ h1.gets > 0) =>
                  ~AlreadyResolved(nextManifest', cell[2])]_vars

C22_Witness ==
  /\ mainPc = "done"
  /\ workerCount = 2
  /\ \E c1, c2 \in Cells :
       /\ c1[1] # c2[1] /\ c1[2] = c2[2]
       /\ H(c1).outcome = "fresh" /\ H(c2).outcome = "reused"
       /\ H(c1).key = H(c2).key

\* C23: the attempt budget in force is the one line 19 computes from the
\* configured value and is at least 1 whatever that value is; a processor
\* issues at most that many GETs for a URL, and every failed attempt and
\* every rejected 304 has used one of them, as has the attempt in progress
\* or the one that succeeded.
C23_AttemptBound ==
  /\ maxFetchAttempts = MAX_FETCH_ATTEMPTS(envFetchAttempts)
  /\ maxFetchAttempts >= 1
  /\ \A cell \in Cells :
       LET h == H(cell)
           failed == h.fetchFails + h.procFails + h.stale304
       IN /\ h.gets <= maxFetchAttempts
          /\ failed <= h.gets
          /\ h.gets <= failed + 1

C23_Witness ==
  /\ envFetchAttempts = Num(0)
  /\ \E cell \in Cells :
       /\ H(cell).gets = DefaultFetchAttempts
       /\ H(cell).stale304 = 1
       /\ H(cell).fetchFails + H(cell).procFails = 1
       /\ H(cell).outcome = "fresh"

\* C24: the first GET a processor issues for a URL carries conditional
\* headers exactly when the prior record of the URL has an etag or a
\* lastModified value, and no later GET of that processor for the URL
\* carries them: every later GET follows a failed attempt or a rejected 304.
C24_ConditionalOneWay ==
  /\ [](\A cell \in Cells :
          /\ H(cell).condGets <= 1
          /\ H(cell).gets <=
               H(cell).fetchFails + H(cell).procFails + H(cell).stale304 + 1)
  /\ [][\A cell \in Cells :
          LET h == H(cell)
              h1 == hist'[cell[1]][cell[2]]
              prior == PrevMetaOf(nextManifest', previousManifest', cell[2])
          IN /\ (h.gets = 0 /\ h1.gets = 1) =>
                  (h1.condGets = 1 <=> (prior.etag # 0 \/ prior.lastModified # 0))
             /\ (h.gets >= 1 /\ h1.gets > h.gets) =>
                  /\ h1.condGets = h.condGets
                  /\ h1.fetchFails + h1.procFails + h1.stale304
                       > h.fetchFails + h.procFails + h.stale304]_vars

C24_Witness ==
  /\ \E cell \in Cells :
       H(cell).gets = 2 /\ H(cell).condGets = 1 /\ H(cell).fetchFails = 1
  /\ \E cell \in Cells :
       H(cell).gets = 2 /\ H(cell).condGets = 1 /\ H(cell).stale304 = 1

\* the entries of the list that processOffer turns away: no identifier, urls
\* that is not an array or is empty, or only blank URLs
Unusable(i) ==
  LET e == imagesList[i]
  IN e.offerId = 0 \/ ~e.isArray \/ \A k \in 1..Len(e.urls) : Trim(e.urls[k]) = 0

\* C25: an entry without identifier, without a non-empty urls array, or
\* whose URLs are all blank causes no fetch, no store call, no manifest write
\* and no statistics change, and produces no output entry: its processor
\* returns null at once, the results hold at most one entry per usable entry
\* of the list, and the step that resumes its worker leaves the manifest,
\* the statistics, the store and the results as they are.
C25_InvalidIgnored ==
  /\ [](\A i \in 1..Len(imagesList) : Unusable(i) =>
          /\ \A u \in URLS : hist[i][u] = NoHist
          /\ \A j \in Holders(i) :
               /\ workers[j].pc = "returned"
               /\ ~workers[j].result.some
               /\ ~workers[j].threw)
  /\ [](/\ Len(offerResults) <=
             Cardinality({i \in 1..Len(imagesList) : ~Unusable(i) /\ claims[i] = 1})
        /\ \A k \in 1..Len(offerResults) :
             \E i \in 1..Len(imagesList) :
               ~Unusable(i) /\ imagesList[i].offerId = offerResults[k].offerId)
  /\ [][\A i \in 1..Len(imagesList) : \A j \in Holders(i) :
          (Unusable(i) /\ workers'[j] # workers[j]) =>
            /\ Shared' = Shared
            /\ store' = store /\ putCount' = putCount]_vars

C25_Witness ==
  /\ mainPc = "done"
  /\ Len(imagesList) = 3
  /\ imagesList[1].offerId = 0 /\ imagesList[1].urls # <<>>
  /\ imagesList[2].offerId # 0 /\ imagesList[2].urls # <<>> /\ Unusable(2)
  /\ \A i \in 1..3 : claims[i] = 1
  /\ Len(diskOffers) = 1

\* the events the four counters count: the PUTs the store accepted, the
\* trusted 304s, the fresh fetches whose object was already stored, and the
\* URLs whose loop ended on a failed attempt (a failure can only be followed
\* by a success or another failure) plus the errors a worker caught
Uploads == SumFn(putCount)
Trusted304s == Cardinality({cell \in Cells : H(cell).outcome = "304"})
FoundStored ==
  Cardinality({cell \in Cells : H(cell).outcome = "fresh" /\ H(cell).puts = 0})
LeftWithError ==
  Cardinality({cell \in Cells :
                 /\ Finished(cell) /\ H(cell).pushes = 0
                 /\ H(cell).fetchFails + H(cell).procFails >= 1})

\* C26: no update of the statistics is lost, with any number of workers: at
\* every moment of the run, its end included, each of the four counters
\* equals the number of its events so far.
C26_NoLostUpdates ==
  /\ stats.uploaded = Uploads
  /\ stats.reused304 = Trusted304s
  /\ stats.reusedExisting = FoundStored
  /\ stats.skipped = LeftWithError + Caught

C26_Witness ==
  /\ mainPc = "done"
  /\ workerCount = 2
  /\ stats.uploaded >= 1
  /\ stats.reused304 >= 1
  /\ stats.reusedExisting >= 1
  /\ stats.skipped >= 1

\* the entries some worker is processing: claimed, and its worker has not
\* yet gone on to claim again
InFlight ==
  {e \in EntryIds : \E j \in Holders(e) : workers[j].pc \notin {"idle", "done"}}

\* the concurrency the run works with, for the configured value
EffectiveConcurrency ==
  IF envConcurrency.nan \/ envConcurrency.n = 0 THEN DefaultConcurrency
  ELSE IF envConcurrency.n < 1 THEN 1 ELSE envConcurrency.n

\* C27: at every moment the number of entries being processed is at most the
\* number of workers started, which is at most the effective configured
\* concurrency and at most the number of entries of the list.
C27_PoolBound ==
  /\ Cardinality(InFlight) <= Cardinality(Started)
  /\ Cardinality(Started) <= EffectiveConcurrency
  /\ Cardinality(Started) <= Len(imagesList)
  /\ Cardinality(Started) = workerCount

C27_Witness ==
  /\ Cardinality(InFlight) = 2
  /\ workerCount = 2
  /\ EffectiveConcurrency = 2
  /\ Len(imagesList) = 3

\* the workers inside the attempt loop of a URL
InLoop == {j \in WorkerIds : workers[j].pc \in {"fetch", "head", "put"}}

\* C28: every record of the next manifest names a stored object, whatever
\* the previous manifest holds, and line 134 never falls back on a record of
\* the next manifest: a processor that enters the attempt loop for a URL
\* finds no record of it in the next manifest, and the prior record it works
\* with is the one of the previous manifest, or empty.
C28_RecordsHaveKey ==
  /\ [](\A u \in SeqToSet(nextManifest.keys) : nextManifest.rec[u].r2Key # 0)
  /\ [](\A j \in InLoop :
          workers[j].prevMeta =
            PrevMetaOf(EmptyManifest, previousManifest, SrcUrl(workers[j])))
  /\ [][\A cell \in Cells :
          (H(cell).gets = 0 /\ hist'[cell[1]][cell[2]].gets = 1) =>
            ~Has(nextManifest', cell[2])]_vars

C28_Witness ==
  /\ mainPc = "done"
  /\ \E cell \in Cells :
       /\ H(cell).stale304 = 1
       /\ H(cell).outcome = "fresh"
       /\ Has(previousManifest, cell[2])
       /\ previousManifest.rec[cell[2]].r2Key = 0
       /\ Has(nextManifest, cell[2])
       /\ nextManifest.rec[cell[2]].r2Key # 0

\* worker j is in the attempt of this cell, waiting for its HEAD or its PUT
Attempting(j, cell) ==
  /\ workers[j].pc \in {"head", "put"}
  /\ workers[j].current = cell[1]
  /\ SrcUrl(workers[j]) = cell[2]

\* the step writes the fresh record of the cell
FreshWritten(cell) ==
  /\ hist'[cell[1]][cell[2]].writes = H(cell).writes + 1
  /\ hist'[cell[1]][cell[2]].outcome = "fresh"

\* C29: the record of a fresh fetch and its resolved URL are written, both in
\* one step, only when the HEAD of the same attempt answered that the object
\* exists or the PUT of the same attempt went through; a HEAD that answers
\* "absent", a failed HEAD and a failed PUT leave the next manifest as it is
\* and add nothing to the resolved URLs for that URL.
C29_RecordAfterStored ==
  [][\A cell \in Cells :
       LET h1 == hist'[cell[1]][cell[2]]
           u == cell[2]
       IN /\ FreshWritten(cell) =>
               \E j \in WorkerIds :
                 /\ Attempting(j, cell)
                 /\ faultsLeft' = faultsLeft
                 /\ \/ workers[j].pc = "head" /\ workers[j].key \in store
                    \/ /\ workers[j].pc = "put"
                       /\ workers[j].key \in store'
                       /\ putCount'[workers[j].key] = putCount[workers[j].key] + 1
                 /\ h1.pushes = H(cell).pushes + 1
                 /\ Has(nextManifest', u)
                 /\ nextManifest'.rec[u].r2Key = workers[j].key
                 /\ PublicUrl(workers[j].key) \in SeqToSet(ResolvedAfter(j))
          /\ \A j \in WorkerIds :
               (/\ Attempting(j, cell)
                /\ workers'[j] # workers[j]
                /\ \/ faultsLeft' < faultsLeft
                   \/ workers[j].pc = "head" /\ workers[j].key \notin store) =>
                 /\ nextManifest' = nextManifest
                 /\ h1.pushes = H(cell).pushes
                 /\ h1.writes = H(cell).writes
                 /\ h1.outcome # "fresh"]_vars

C29_Witness ==
  /\ mainPc = "done"
  /\ \E cell \in Cells :
       H(cell).outcome = "fresh" /\ H(cell).procFails = 1 /\ H(cell).puts = 1
  /\ \E cell \in Cells :
       H(cell).outcome = "fresh" /\ H(cell).heads = 1 /\ H(cell).puts = 0

\* the public URLs the final next manifest gives the source URLs of the
\* entries with this identifier
RecordedFor(id) ==
  {PublicUrl(nextManifest.rec[u].r2Key) :
     u \in {v \in URLS : Has(nextManifest, v) /\
                         \E i \in Naming(v) : imagesList[i].offerId = id}}

\* C30: at the end of the run every resolved URL listed for an entry is the
\* public URL of the stored key that the final next manifest records for one
\* of the entry's source URLs.
C30_ResolvedMatchManifest ==
  mainPc = "done" =>
    \A k \in 1..Len(offerResults) :
      SeqToSet(offerResults[k].urls) \subseteq RecordedFor(offerResults[k].offerId)
====
